---- MODULE Spec2Model ----
(***************************************************************************)
(* Story Booker: the job state machine of src/main.py                      *)
(* (process_storybook_job and POST /generate), with the author agent's     *)
(* beat-count rule, the character merge of the character phase and the     *)
(* beat-number check of generate_pdf.                                      *)
(*                                                                         *)
(* One action is one step of the background task: the writes to the job    *)
(* record that precede a call, the call, and the handling of its result.   *)
(* An exception handler is a step of its own.  Remote calls (text and      *)
(* image providers) and the file system are the environment: each call     *)
(* returns one of the results the callee can produce, or raises.           *)
(*                                                                         *)
(* Spec / FairSpec          one job from POST /generate to its end         *)
(* JobsSpec                 two jobs whose tasks interleave                *)
(* ProviderSpec / Fair...   one call of LLMClient.generate or              *)
(*                          ImageService.generate_image                    *)
(* FunctionSpec             ensure_characters_in_beats,                    *)
(*                          match_characters_by_similarity and             *)
(*                          generate_image_prompts on arguments of their   *)
(*                          own                                            *)
(***************************************************************************)
EXTENDS Integers, Sequences, FiniteSets, TLC

(***************************************************************************)
(* Bounds of the model                                                     *)
(***************************************************************************)
MaxPages == 2       \* largest num_pages requested (the API accepts 1..10)
MaxSubjects == 2    \* longest sticker_subjects list of a beat, and most prompts returned
MaxLangs == 2       \* longest languages list of a request
ExtraBeats == 1     \* how many beats more than MaxPages a provider may return

JobIds == {"j1"}    \* ids uuid4 may hand out
MaxApiPages == 10   \* POST /generate rejects num_pages above it

NULL == "null"      \* Python None, for optional strings
NoSeed == -1        \* Python None, for Character.seed (seeds are >= 0)
NoDict == {}        \* Python None, for JobStatus.file_paths; a dict d is {d}

(***************************************************************************)
(* Text.  A name or a species is a sequence of characters, so that         *)
(* str.lower() and the substring test `a in b` are computed, not assumed.  *)
(***************************************************************************)
UpperToLower ==
  [c \in {"L", "U", "N", "A", "Z", "E", "D", "B", "O", "R", "M", "S", "T"} |->
     CASE c = "L" -> "l" [] c = "U" -> "u" [] c = "N" -> "n" [] c = "A" -> "a"
       [] c = "Z" -> "z" [] c = "E" -> "e" [] c = "D" -> "d" [] c = "B" -> "b"
       [] c = "O" -> "o" [] c = "R" -> "r" [] c = "M" -> "m" [] c = "S" -> "s"
       [] c = "T" -> "t"]

lower(s) ==
  [n \in 1..Len(s) |-> IF s[n] \in DOMAIN UpperToLower THEN UpperToLower[s[n]] ELSE s[n]]

\* Python's `a in b` on strings
contains(b, a) ==
  \E n \in 0..(Len(b) - Len(a)) : SubSeq(b, n + 1, n + Len(a)) = a

(***************************************************************************)
(* The character store and what character extraction may return            *)
(***************************************************************************)
Name_Luna == <<"L", "u", "n", "a">>
Name_luna == <<"l", "u", "n", "a">>
Name_Bo == <<"B", "o">>
Name_Zed == <<"Z", "e", "d">>
Name_ZED == <<"Z", "E", "D">>
Name_Robo == <<"R", "o", "b", "o">>
Sp_mouse == <<"m", "o", "u", "s", "e">>
Sp_bear == <<"b", "e", "a", "r">>
Sp_robot == <<"r", "o", "b", "o", "t">>
Sp_dormouse == <<"d", "o", "r", "m", "o", "u", "s", "e">>
NoSpecies == <<>>   \* Character.species is None

\* Character (src/models.py): physical_description is kept as its list of words
Character(name, species, features, words, ref, seed) ==
  [name |-> name, species |-> species, key_features |-> features,
   physical_description |-> words, reference_image_path |-> ref, seed |-> seed]

\* characters/<id>/character.json with its image, as load_character,
\* dict_to_character and get_character_image_path return them ("bo" was
\* saved without an image and without a seed)
CharacterStore ==
  [id \in {"luna", "bo"} |->
     IF id = "luna"
     THEN Character(Name_Luna, Sp_mouse, {"red scarf", "big ears"},
                    <<"small", "grey", "mouse", "with", "scarf">>,
                    "characters/luna/image.png", 4242)
     ELSE Character(Name_Bo, Sp_bear, {"blue hat"},
                    <<"large", "brown", "bear">>,
                    NULL, NoSeed)]

Extracted(name, species, features, words) ==
  Character(name, species, features, words, NULL, NoSeed)

\* lists extract_main_characters may return
ExtractedLists ==
  { <<>>,
    << Extracted(Name_luna, Sp_mouse, {"red scarf"}, <<"tiny", "mouse">>) >>,
    << Extracted(Name_Zed, Sp_robot, {"antenna"}, <<"shiny", "metal", "robot">>),
       Extracted(Name_ZED, NoSpecies, {}, <<>>) >>,
    << Extracted(Name_Zed, Sp_robot, {"antenna"}, <<"shiny", "metal", "robot">>),
       Extracted(Name_Robo, Sp_robot, {"antenna"}, <<"shiny", "metal", "robot">>) >>,
    << Extracted(Name_luna, NoSpecies, {}, <<>>),
       Extracted(Name_Robo, Sp_mouse, {}, <<>>) >> }

(***************************************************************************)
(* Requests                                                                *)
(***************************************************************************)
ValidLanguages == {"en", "es"}

RECURSIVE SeqsUpTo(_, _)
SeqsUpTo(S, n) ==
  IF n = 0 THEN {<<>>}
  ELSE LET shorter == SeqsUpTo(S, n - 1)
       IN shorter \cup {Append(s, x) : s \in {t \in shorter : Len(t) = n - 1}, x \in S}

\* the languages query parameter: absent (None) or a list
NoLanguages == <<"None">>
LanguageInputs ==
  {NoLanguages} \cup (SeqsUpTo(ValidLanguages, MaxLangs) \ {<<>>}) \cup {<<"fr">>}

\* the character_ids query parameter: absent (None) is the empty list
CharacterIdInputs == {<<>>, <<"luna">>, <<"luna", "bo">>, <<"luna", "luna">>, <<"ghost">>}

NumPagesInputs == 0..MaxPages

\* list(dict.fromkeys(xs)): duplicates removed, first occurrences kept in order
RECURSIVE dedupe(_)
dedupe(xs) ==
  IF xs = <<>> THEN <<>>
  ELSE LET front == dedupe(SubSeq(xs, 1, Len(xs) - 1))
           last == xs[Len(xs)]
       IN IF \E n \in 1..Len(front) : front[n] = last THEN front ELSE Append(front, last)

Range(s) == {s[n] : n \in 1..Len(s)}

(***************************************************************************)
(* State                                                                   *)
(***************************************************************************)
VARIABLES
  jobs,      \* the registry `jobs`: job id -> JobStatus record
  task,      \* job id -> locals and position of process_storybook_job
  calls,     \* job id -> the calls the task has issued so far, in order
  invocation, \* one call of LLMClient.generate or ImageService.generate_image
  applied    \* one application of a function of the services to its arguments

vars == <<jobs, task, calls, invocation, applied>>

\* no function has been applied yet
NotApplied == [function |-> "none", input |-> <<>>, output |-> <<>>]

JobStatus(status, file_path, file_paths, progress, error_message, current_step) ==
  [status |-> status, file_path |-> file_path, file_paths |-> file_paths,
   progress |-> progress, error_message |-> error_message,
   current_step |-> current_step]

NoStory == [beats |-> <<>>, characters |-> <<>>]
NoException == [type |-> "none", message |-> "none"]
NoResponse == [kind |-> "none", beats |-> <<>>, exc |-> NoException]

\* the locals of process_storybook_job when the task is scheduled, with
\*   pc              the step the task is at
\*   story_response  the text the author agent last received, kept until
\*                   the step after the one that received it
\*   story_result    how the call for the first language's story ended
\*   exc             the exception on its way to the handlers of the task
NewTask(num_pages, languages, character_ids) ==
  [pc |-> "start",
   num_pages |-> num_pages,
   languages_arg |-> languages,
   character_ids |-> character_ids,
   languages |-> <<>>,
   llm_client |-> FALSE,
   stored_characters |-> <<>>,
   story_response |-> NoResponse,
   story_result |-> "none",
   base_storybook |-> NoStory,
   cover_image_path |-> NULL,
   extracted_characters |-> <<>>,
   characters |-> <<>>,
   selected_character_names |-> {},
   k |-> 0,
   i |-> 0,
   all_background_prompts |-> {},
   image_paths |-> <<>>,
   lang_idx |-> 0,
   storybook |-> NoStory,
   file_paths |-> <<>>,
   exc |-> NoException]

(***************************************************************************)
(* services/llm_client.py: LLMClient.generate                              *)
(* services/image_service.py: ImageService.generate_image                  *)
(* One call is followed from its first line to its return or raise.  How a *)
(* provider answers an attempt is the environment's choice.                *)
(***************************************************************************)
LLMProvider == {"groq", "openai", "gpt4all", "mock"}
ImageProvider == {"pollinations", "openai", "mock"}

llm_fallback_order(provider) ==
  CASE provider = "groq" -> <<"openai", "gpt4all", "mock">>
    [] provider = "openai" -> <<"groq", "gpt4all", "mock">>
    [] provider = "gpt4all" -> <<"groq", "openai", "mock">>
    [] provider = "mock" -> <<"groq", "openai", "gpt4all">>

image_fallback_order(provider) ==
  CASE provider = "pollinations" -> <<"openai", "mock">>
    [] provider = "openai" -> <<"pollinations", "mock">>
    [] provider = "mock" -> <<"pollinations", "openai">>

\* providers_to_try extended by the fallback order whatever use_fallback is
providers_to_try_always_extended(service, provider, use_fallback) ==
  <<provider>> \o (IF service = "llm" THEN llm_fallback_order(provider)
                   ELSE image_fallback_order(provider))

\* lines 162-171 of llm_client.py, 76-84 of image_service.py
providers_to_try(service, provider, use_fallback) ==
  <<provider>> \o (IF ~use_fallback THEN <<>>
                   ELSE IF service = "llm" THEN llm_fallback_order(provider)
                   ELSE image_fallback_order(provider))

\* how a provider other than Pollinations can answer one attempt: a result,
\* no answer within LLM_TIMEOUT / IMAGE_TIMEOUT, no API key configured, a key
\* the backend rejects, a rate limit, any other error.  The mock provider
\* computes its result locally and GPT4All runs a local model without a key.
ProviderAnswers(provider) ==
  CASE provider = "mock" -> {"ok", "timeout"}
    [] provider = "gpt4all" -> {"ok", "timeout", "error"}
    [] OTHER -> {"ok", "timeout", "no_key", "invalid_key", "rate_limit", "error"}

CredentialAnswers == {"no_key", "invalid_key", "401"}

Error(type, message) == [type |-> type, message |-> message]

\* the exception an answer first raises inside the provider's method
provider_cause(service, provider, answer) ==
  CASE answer = "timeout" -> Error("asyncio.TimeoutError", "")
    [] answer = "no_key" ->
         IF service = "image" THEN Error("ValueError", "OPENAI_API_KEY is required for OpenAI DALL-E")
         ELSE IF provider = "groq" THEN Error("ValueError", "GROQ_API_KEY not found in environment")
         ELSE Error("ValueError", "OPENAI_API_KEY not found in environment")
    [] answer = "invalid_key" -> Error("AuthenticationError", "Incorrect API key provided")
    [] answer = "rate_limit" -> Error("RateLimitError", "Rate limit reached")
    [] answer = "error" ->
         IF provider = "gpt4all" THEN Error("FileNotFoundError", "No model files found")
         ELSE Error("APIError", "Internal server error")

\* the exception that leaves _generate_groq, _generate_openai,
\* _generate_gpt4all, _generate_mock under wait_for, as the handlers of
\* generate / generate_image bind it
provider_error(service, provider, answer) ==
  LET cause == provider_cause(service, provider, answer)
  IN IF answer = "timeout"
     THEN IF service = "llm"
          THEN Error("TimeoutError", "LLM generation timed out using provider '" \o provider \o "'")
          ELSE Error("TimeoutError", "Image generation timed out using provider '" \o provider \o "'")
     ELSE IF service = "image" /\ provider = "openai" /\ answer # "no_key"
     THEN Error("RuntimeError", "Failed to generate image from OpenAI DALL-E. Error: "
                                   \o cause.type \o ": " \o cause.message)
     ELSE IF service = "llm" /\ provider = "gpt4all"
     THEN Error("RuntimeError", "Failed to load GPT4All model: " \o cause.message)
     ELSE cause

\* line 220 of llm_client.py, line 127 of image_service.py: the statement
\* after the loop over providers_to_try
all_providers_failed(last_error) ==
  Error("RuntimeError", "All providers failed. Last error: " \o last_error.message)

NoInvocation ==
  [service |-> "none", provider |-> "none", use_fallback |-> FALSE,
   providers_to_try |-> <<>>, position |-> 0, attempts |-> <<>>,
   last_error |-> NoException, status |-> "idle", result |-> "none",
   exc |-> NoException,
   model_idx |-> 0, attempt |-> 0, request |-> <<>>, response |-> "none",
   unauthorized |-> FALSE, model_error |-> NoException]

\* lines 161-176 of LLMClient.generate, 75-87 of ImageService.generate_image
NewInvocation(service, provider, use_fallback) ==
  [NoInvocation EXCEPT !.service = service, !.provider = provider,
                       !.use_fallback = use_fallback,
                       !.providers_to_try = providers_to_try(service, provider, use_fallback),
                       !.position = 1, !.status = "running"]

\* provider_returned going on with the next provider of the list
provider_returned_going_on(c, answer) ==
  LET provider == c.providers_to_try[c.position]
      returned == [c EXCEPT !.attempts = Append(@, [provider |-> provider, answer |-> answer,
                                                    cause |-> NoException, exc |-> NoException]),
                            !.result = provider, !.model_idx = 0, !.attempt = 0]
  IN IF c.position = Len(c.providers_to_try)
     THEN [returned EXCEPT !.status = "returned"]
     ELSE [returned EXCEPT !.position = c.position + 1]

\* a provider's method returned: `return result`
provider_returned(c, answer) ==
  LET provider == c.providers_to_try[c.position]
  IN [c EXCEPT !.attempts = Append(@, [provider |-> provider, answer |-> answer,
                                       cause |-> NoException, exc |-> NoException]),
               !.status = "returned", !.result = provider,
               !.model_idx = 0, !.attempt = 0]

\* provider_failed ending the call when a credential is missing or refused
provider_failed_fatal_auth(c, answer, cause, exc) ==
  LET provider == c.providers_to_try[c.position]
      failed == [c EXCEPT !.attempts = Append(@, [provider |-> provider, answer |-> answer,
                                                  cause |-> cause, exc |-> exc]),
                          !.last_error = exc, !.model_idx = 0, !.attempt = 0]
  IN IF provider = c.providers_to_try[Len(c.providers_to_try)] \/ answer \in CredentialAnswers
     THEN [failed EXCEPT !.status = "raised", !.exc = exc]
     ELSE [failed EXCEPT !.position = c.position + 1]

\* the two handlers of the loop (llm_client.py 206-218, image_service.py
\* 110-125): remember the error, raise it if the provider is the last of
\* the list, otherwise go on with the next provider
provider_failed(c, answer, cause, exc) ==
  LET provider == c.providers_to_try[c.position]
      failed == [c EXCEPT !.attempts = Append(@, [provider |-> provider, answer |-> answer,
                                                  cause |-> cause, exc |-> exc]),
                          !.last_error = exc, !.model_idx = 0, !.attempt = 0]
  IN IF provider = c.providers_to_try[Len(c.providers_to_try)]
     THEN [failed EXCEPT !.status = "raised", !.exc = exc]
     ELSE [failed EXCEPT !.position = c.position + 1]

generate(provider, use_fallback) ==
  /\ invocation.status = "idle"
  /\ invocation' = NewInvocation("llm", provider, use_fallback)
  /\ UNCHANGED <<jobs, task, calls, applied>>

generate_image(provider, use_fallback) ==
  /\ invocation.status = "idle"
  /\ invocation' = NewInvocation("image", provider, use_fallback)
  /\ UNCHANGED <<jobs, task, calls, applied>>

\* one iteration of `for provider in providers_to_try` with a provider
\* other than Pollinations
AttemptProvider ==
  /\ invocation.status = "running"
  /\ LET c == invocation
         provider == c.providers_to_try[c.position]
     IN /\ provider # "pollinations"
        /\ \E answer \in ProviderAnswers(provider) :
             invocation' = IF answer = "ok"
                           THEN provider_returned(c, answer)
                           ELSE provider_failed(c, answer,
                                                provider_cause(c.service, provider, answer),
                                                provider_error(c.service, provider, answer))
  /\ UNCHANGED <<jobs, task, calls, applied>>

(***************************************************************************)
(* services/image_service.py: ImageService._generate_pollinations          *)
(***************************************************************************)
models == <<"flux", "flux-pro", "flux-dev", "stable-diffusion-xl",
            "stable-diffusion-2.1", "stable-diffusion-1.5">>
max_retries == 3

\* what one GET to gen.pollinations.ai can come to: a response with a
\* status code and a content (an image, a text telling of a limit, another
\* text), a network error, or IMAGE_TIMEOUT running out meanwhile
Response(status_code, content) == [kind |-> "response", status_code |-> status_code, content |-> content]
PollinationsAnswers ==
  {Response(200, content) : content \in {"image", "limited", "text"}}
    \cup {Response(status_code, "text") : status_code \in {400, 401, 404, 429, 500, 503}}
    \cup {[kind |-> "network", status_code |-> 0, content |-> "none"],
          [kind |-> "timeout", status_code |-> 0, content |-> "none"]}

answer_name(answer) ==
  IF answer.kind = "response" THEN ToString(answer.status_code) ELSE answer.kind

\* the answers lines 264 and 368-373 treat alike: a status of 500..504 or a
\* network error; every other answer is told by its name
answer_class(answer) ==
  IF answer.kind = "network" \/ (500 <= answer.status_code /\ answer.status_code <= 504)
  THEN "server or network error"
  ELSE answer_name(answer)

authentication_failed == Error("ValueError", "Pollinations.ai authentication failed (401 Unauthorized)")
unexpected_content == Error("ValueError", "Unexpected content type from Pollinations.ai")
rate_limit_exceeded == Error("RuntimeError", "Pollinations.ai rate limit exceeded (429)")
rate_limit_reached == Error("RuntimeError", "Pollinations.ai rate limit reached with authenticated API key")
model_not_found(model) == Error("RuntimeError", "Model '" \o model \o "' not found (404) - will try next model")
model_failed(model, status_code) ==
  Error("RuntimeError", "Model '" \o model \o "' failed with status " \o ToString(status_code)
                           \o " - will try next model")
network_error(model) == Error("RuntimeError", "Network error with model '" \o model \o "'")
unexpected_error(model, e) ==
  Error("RuntimeError", "Unexpected error with model '" \o model \o "': " \o e.message)
all_models_failed(last_error) ==
  Error("RuntimeError", "All Pollinations.ai models failed. Last error: "
                           \o last_error.type \o ": " \o last_error.message)
missing_api_key == Error("ValueError", "POLLINATIONS_API_KEY is required")

\* line 395: the messages that hold "will try next model", "failed with
\* status", "network error" or "unexpected error"
will_try_next_model(e) ==
  \E n \in 1..Len(models) :
     \/ e = model_not_found(models[n])
     \/ e = network_error(models[n])
     \/ \E status_code \in 400..504 : e = model_failed(models[n], status_code)
     \/ \E wrapped \in {authentication_failed, unexpected_content} : e = unexpected_error(models[n], wrapped)

Retry == [do |-> "retry", cause |-> NoException, exc |-> NoException]
ReturnBytes == [do |-> "return", cause |-> NoException, exc |-> NoException]
Raise(cause, exc) == [do |-> "raise", cause |-> cause, exc |-> exc]

\* pollinations_attempt retrying every status from 400 on but 401 and 429
pollinations_attempt_retrying_4xx(model, attempt, answer) ==
  IF answer.kind = "network"
  THEN IF attempt < max_retries THEN Retry
       ELSE Raise(Error("RequestError", "connection failed"), network_error(model))
  ELSE LET status_code == answer.status_code
       IN IF 400 <= status_code /\ status_code <= 504 /\ status_code \notin {401, 429}
             /\ attempt < max_retries THEN Retry
          ELSE IF status_code >= 400
          THEN IF status_code = 404 THEN Raise(model_not_found(model), model_not_found(model))
               ELSE IF status_code = 401
               THEN Raise(authentication_failed, unexpected_error(model, authentication_failed))
               ELSE IF status_code = 429 THEN Raise(rate_limit_exceeded, rate_limit_exceeded)
               ELSE Raise(model_failed(model, status_code), model_failed(model, status_code))
          ELSE IF answer.content # "image"
          THEN IF answer.content = "limited" THEN Raise(rate_limit_reached, rate_limit_reached)
               ELSE Raise(unexpected_content, unexpected_error(model, unexpected_content))
          ELSE ReturnBytes

\* lines 252-387: one pass of `for attempt in range(1, max_retries + 1)`
\* for `model`, with the handlers of its try statement.  A ValueError
\* raised in the body is caught by `except Exception` (lines 384-387).
pollinations_attempt(model, attempt, answer) ==
  IF answer.kind = "network"
  THEN IF attempt < max_retries THEN Retry
       ELSE Raise(Error("RequestError", "connection failed"), network_error(model))
  ELSE LET status_code == answer.status_code
       IN IF 500 <= status_code /\ status_code <= 504 /\ attempt < max_retries THEN Retry
          ELSE IF status_code >= 400
          THEN IF status_code = 404 THEN Raise(model_not_found(model), model_not_found(model))
               ELSE IF status_code = 401
               THEN Raise(authentication_failed, unexpected_error(model, authentication_failed))
               ELSE IF status_code = 429 THEN Raise(rate_limit_exceeded, rate_limit_exceeded)
               ELSE Raise(model_failed(model, status_code), model_failed(model, status_code))
          ELSE IF answer.content # "image"
          THEN IF answer.content = "limited" THEN Raise(rate_limit_reached, rate_limit_reached)
               ELSE Raise(unexpected_content, unexpected_error(model, unexpected_content))
          ELSE ReturnBytes

\* lines 202-226: the API key is checked before the first request
GeneratePollinations ==
  /\ invocation.status = "running"
  /\ LET c == invocation
     IN /\ c.providers_to_try[c.position] = "pollinations"
        /\ c.model_idx = 0
        /\ \E has_valid_key \in BOOLEAN :
             invocation' = IF has_valid_key
                           THEN [c EXCEPT !.model_idx = 1, !.attempt = 1]
                           ELSE provider_failed(c, "no_key", missing_api_key, missing_api_key)
  /\ UNCHANGED <<jobs, task, calls, applied>>

\* lines 229-420: one request to Pollinations for models[model_idx] (Python
\* counts model_idx from 0, the model from 1) and what the code does with
\* its answer
PollinationsRequest ==
  /\ invocation.status = "running"
  /\ invocation.model_idx > 0
  /\ \E answer \in PollinationsAnswers :
       LET c == [invocation EXCEPT !.request = <<models[invocation.model_idx], invocation.attempt>>,
                                   !.response = answer_class(answer),
                                   !.unauthorized = @ \/ answer.status_code = 401]
           model == models[c.model_idx]
           outcome == pollinations_attempt(model, c.attempt, answer)
       IN invocation' =
            IF answer.kind = "timeout"
            THEN provider_failed(c, "timeout", Error("asyncio.TimeoutError", ""),
                                 provider_error("image", "pollinations", "timeout"))
            ELSE IF outcome.do = "retry" THEN [c EXCEPT !.attempt = @ + 1]
            ELSE IF outcome.do = "return" THEN provider_returned(c, "ok")
            ELSE IF will_try_next_model(outcome.exc)
            THEN IF c.model_idx < Len(models)
                 THEN [c EXCEPT !.model_idx = @ + 1, !.attempt = 1, !.model_error = outcome.exc]
                 ELSE provider_failed(c, answer_name(answer), outcome.cause,
                                      all_models_failed(outcome.exc))
            ELSE provider_failed(c, answer_name(answer), outcome.cause, outcome.exc)
  /\ UNCHANGED <<jobs, task, calls, applied>>

ProviderInit ==
  /\ jobs = <<>>
  /\ task = <<>>
  /\ calls = <<>>
  /\ invocation = NoInvocation
  /\ applied = NotApplied

ProviderNext ==
  \/ \E provider \in LLMProvider, use_fallback \in BOOLEAN : generate(provider, use_fallback)
  \/ \E provider \in ImageProvider, use_fallback \in BOOLEAN : generate_image(provider, use_fallback)
  \/ AttemptProvider
  \/ GeneratePollinations
  \/ PollinationsRequest

ProviderSpec == ProviderInit /\ [][ProviderNext]_vars

\* every await of the call returns or raises (each attempt is under
\* wait_for), so a call that can go on does
FairProviderSpec == ProviderSpec /\ WF_vars(ProviderNext)

(***************************************************************************)
(* The registry of jobs when the application has started                   *)
(***************************************************************************)
Init ==
  /\ jobs = <<>>
  /\ task = <<>>
  /\ calls = <<>>
  /\ invocation = NoInvocation
  /\ applied = NotApplied

Put(f, key, value) == [x \in DOMAIN f \cup {key} |-> IF x = key THEN value ELSE f[x]]

(***************************************************************************)
(* POST /generate                                                          *)
(***************************************************************************)
character_exists(char_id) == char_id \in DOMAIN CharacterStore

generate_storybook_endpoint(job_id, num_pages, languages, character_ids) ==
  LET langs == IF languages = NoLanguages THEN <<"en">> ELSE languages
  IN /\ job_id \notin DOMAIN jobs
     /\ ~(num_pages < 1 \/ num_pages > MaxApiPages)
     /\ \A n \in 1..Len(langs) : langs[n] \in ValidLanguages
     /\ \A n \in 1..Len(character_ids) : character_exists(character_ids[n])
     /\ jobs' = Put(jobs, job_id, JobStatus("pending", NULL, NoDict, 0, NULL, NULL))
     /\ task' = Put(task, job_id, NewTask(num_pages, dedupe(langs), character_ids))
     /\ calls' = Put(calls, job_id, <<>>)
     /\ UNCHANGED <<invocation, applied>>

Generate ==
  \E job_id \in JobIds, num_pages \in NumPagesInputs,
     languages \in LanguageInputs, character_ids \in CharacterIdInputs :
       generate_storybook_endpoint(job_id, num_pages, languages, character_ids)

(***************************************************************************)
(* services/author_agent.py: generate_storybook                            *)
(***************************************************************************)
Beats(count) == [n \in 1..count |-> [id |-> n]]

\* the errors llm_client.generate can raise to the agents of a job, which
\* call it with use_fallback left True: the error of the provider that is
\* last in the list of the configured provider
GenerateErrors ==
  UNION {LET tried == providers_to_try("llm", provider, TRUE)
             last == tried[Len(tried)]
         IN {provider_error("llm", last, answer) : answer \in ProviderAnswers(last) \ {"ok"}}
         : provider \in LLMProvider}

\* what llm_client.generate gives the author agent: it raises (every
\* provider failed), or returns text that is not JSON, or a JSON story
StoryResponses ==
  {[kind |-> "raise", beats |-> <<>>, exc |-> e] : e \in GenerateErrors}
    \cup {[kind |-> "garbage", beats |-> <<>>, exc |-> NoException]}
    \cup {[kind |-> "json", beats |-> Beats(count), exc |-> NoException] :
             count \in 0..(MaxPages + ExtraBeats)}

Raised(type, message) == [ok |-> FALSE, storybook |-> NoStory, type |-> type, message |-> message]
Returned(storybook) == [ok |-> TRUE, storybook |-> storybook, type |-> "none", message |-> "none"]

\* generate_storybook keeping the last num_pages beats (beats[-num_pages:])
generate_storybook_last_beats(response, num_pages) ==
  IF response.kind = "raise"
  THEN Raised("RuntimeError", "Error generating storybook: " \o response.exc.message)
  ELSE IF response.kind = "garbage" THEN Raised("ValueError", "Failed to parse LLM response as JSON")
  ELSE IF Len(response.beats) # num_pages
       THEN IF Len(response.beats) > num_pages
            THEN Returned([beats |-> SubSeq(response.beats, Len(response.beats) - num_pages + 1,
                                            Len(response.beats)),
                           characters |-> <<>>])
            ELSE Raised("RuntimeError", "Error generating storybook: LLM generated only too few story beats")
       ELSE Returned([beats |-> response.beats, characters |-> <<>>])

generate_storybook(response, num_pages) ==
  IF response.kind = "raise"
  THEN Raised("RuntimeError", "Error generating storybook: " \o response.exc.message)
  ELSE IF response.kind = "garbage" THEN Raised("ValueError", "Failed to parse LLM response as JSON")
  ELSE IF Len(response.beats) # num_pages
       THEN IF Len(response.beats) > num_pages
            THEN Returned([beats |-> SubSeq(response.beats, 1, num_pages), characters |-> <<>>])
            ELSE Raised("RuntimeError", "Error generating storybook: LLM generated only too few story beats")
       ELSE Returned([beats |-> response.beats, characters |-> <<>>])

(***************************************************************************)
(* services/character_service.py: match_characters_by_similarity           *)
(* A score is the fraction num/den, so that the Jaccard terms are exact.   *)
(***************************************************************************)
stop_words == {"the", "a", "an", "is", "are", "with", "and", "or", "but", "has",
               "have", "had", "was", "were", "be", "been", "being"}

desc_words(words) == {w \in Range(words) : Len(w) > 3 /\ w \notin stop_words}

similarity_score(extracted_char, stored_char) ==
  LET es == lower(extracted_char.species)
      ss == lower(stored_char.species)
      en == lower(extracted_char.name)
      sn == lower(stored_char.name)
      ef == extracted_char.key_features
      sf == stored_char.key_features
      ew == desc_words(extracted_char.physical_description)
      sw == desc_words(stored_char.physical_description)
      species_points == IF es # NoSpecies /\ ss # NoSpecies
                        THEN IF es = ss THEN 40
                             ELSE IF contains(ss, es) \/ contains(es, ss) THEN 30 ELSE 0
                        ELSE 0
      name_points == IF en = sn THEN 30
                     ELSE IF contains(sn, en) \/ contains(en, sn) THEN 15 ELSE 0
      use_f == ef # {} /\ sf # {}
      use_w == ew # {} /\ sw # {}
      f_over == IF use_f THEN Cardinality(ef \cap sf) ELSE 0
      f_total == IF use_f THEN Cardinality(ef \cup sf) ELSE 1
      w_over == IF use_w THEN Cardinality(ew \cap sw) ELSE 0
      w_total == IF use_w THEN Cardinality(ew \cup sw) ELSE 1
  IN [num |-> (species_points + name_points) * f_total * w_total
                + 20 * f_over * w_total + 10 * w_over * f_total,
      den |-> f_total * w_total]

\* greater taking an equal score for a better one (`score >= best_score`)
greater_or_equal(a, b) == a.num * b.den >= b.num * a.den

\* line 668: `score > best_score` on the fractions
greater(a, b) == a.num * b.den > b.num * a.den

\* the loop over stored_chars: position of best_match (0: none yet) and best_score
RECURSIVE best_match_upto(_, _, _)
best_match_upto(extracted_char, stored_chars, n) ==
  IF n = 0 THEN [match |-> 0, score |-> [num |-> 0, den |-> 1]]
  ELSE LET before == best_match_upto(extracted_char, stored_chars, n - 1)
           score == similarity_score(extracted_char, stored_chars[n])
       IN IF greater(score, before.score) THEN [match |-> n, score |-> score] ELSE before

\* match_characters_by_similarity returning a match only above 40 points
match_characters_by_similarity_above(extracted_char, stored_chars) ==
  IF stored_chars = <<>> THEN 0
  ELSE LET best == best_match_upto(extracted_char, stored_chars, Len(stored_chars))
       IN IF best.score.num > 40 * best.score.den THEN best.match ELSE 0

\* the position in stored_chars of the character returned, 0 for None
match_characters_by_similarity(extracted_char, stored_chars) ==
  IF stored_chars = <<>> THEN 0
  ELSE LET best == best_match_upto(extracted_char, stored_chars, Len(stored_chars))
       IN IF best.score.num >= 40 * best.score.den THEN best.match ELSE 0

(***************************************************************************)
(* process_storybook_job                                                   *)
(***************************************************************************)
first_language(t) == t.languages[1]

Log(job_id, call) == calls' = [calls EXCEPT ![job_id] = Append(@, call)]

\* the task is at `pc` and its job is job_id
At(job_id, pc) == job_id \in DOMAIN task /\ task[job_id].pc = pc

\* WriteJob writing the record under every id of the registry
WriteJob_every_record(job_id, updated) ==
  jobs' = [other \in DOMAIN jobs |-> updated]

\* `if job_id in jobs: jobs[job_id].<field> = ...`
WriteJob(job_id, updated) ==
  jobs' = IF job_id \in DOMAIN jobs THEN [jobs EXCEPT ![job_id] = updated] ELSE jobs

\* lines 77-95: defaults, status "processing", the two service clients
Start(job_id) ==
  /\ At(job_id, "start")
  /\ LET t == task[job_id]
         languages == IF t.languages_arg = <<>> THEN <<"en">> ELSE dedupe(t.languages_arg)
     IN /\ WriteJob(job_id, [jobs[job_id] EXCEPT !.status = "processing", !.progress = 0,
                                                  !.current_step = "Initializing"])
        /\ \E created \in BOOLEAN :
             task' = [task EXCEPT ![job_id] =
                        IF created
                        THEN [t EXCEPT !.languages = languages, !.llm_client = TRUE, !.pc = "load"]
                        ELSE [t EXCEPT !.languages = languages, !.pc = "except",
                                       !.exc = [type |-> "ValueError", message |-> "Unknown provider"]]]
  /\ UNCHANGED calls
  /\ UNCHANGED <<invocation, applied>>

\* the characters of `ids` whose load succeeded, in the order of `ids`
RECURSIVE loaded_characters(_, _)
loaded_characters(ids, loaded) ==
  IF ids = <<>> THEN <<>>
  ELSE LET front == loaded_characters(SubSeq(ids, 1, Len(ids) - 1), loaded)
       IN IF loaded[Len(ids)] THEN Append(front, CharacterStore[ids[Len(ids)]]) ELSE front

\* lines 97-116: load the selected characters; a failed load is skipped
LoadCharacters(job_id) ==
  /\ At(job_id, "load")
  /\ LET t == task[job_id]
     IN /\ IF t.character_ids # <<>>
           THEN WriteJob(job_id, [jobs[job_id] EXCEPT !.current_step = "Loading selected characters",
                                                      !.progress = 5])
           ELSE UNCHANGED jobs
        /\ \E loaded \in [1..Len(t.character_ids) -> BOOLEAN] :
             task' = [task EXCEPT ![job_id] =
                        [t EXCEPT !.stored_characters = loaded_characters(t.character_ids, loaded),
                                  !.pc = "story"]]
  /\ UNCHANGED calls
  /\ UNCHANGED <<invocation, applied>>

\* GenerateBaseStory whose handlers record the error and do not raise again
GenerateBaseStory_no_raise(job_id) ==
  /\ At(job_id, "story")
  /\ LET t == task[job_id]
         job == [jobs[job_id] EXCEPT !.current_step = "Generating story (for images)", !.progress = 7]
     IN /\ Log(job_id, <<"story", first_language(t)>>)
        /\ \/ /\ WriteJob(job_id, [job EXCEPT !.status = "error",
                                              !.error_message = "Story generation timed out"])
              /\ task' = [task EXCEPT ![job_id] =
                            [t EXCEPT !.story_result = "timeout", !.pc = "story_done"]]
           \/ \E response \in StoryResponses :
                LET result == generate_storybook(response, t.num_pages)
                IN IF result.ok
                   THEN /\ WriteJob(job_id, job)
                        /\ task' = [task EXCEPT ![job_id] =
                                      [t EXCEPT !.story_response = response, !.story_result = "ok",
                                                !.base_storybook = result.storybook,
                                                !.pc = "story_done"]]
                   ELSE /\ WriteJob(job_id, [job EXCEPT !.status = "error",
                                                        !.error_message = "Story generation failed"])
                        /\ task' = [task EXCEPT ![job_id] =
                                      [t EXCEPT !.story_response = response,
                                                !.story_result = "failed", !.pc = "story_done"]]
  /\ UNCHANGED <<invocation, applied>>

\* lines 118-152: the story of the first language, under STORY_GENERATION_TIMEOUT
GenerateBaseStory(job_id) ==
  /\ At(job_id, "story")
  /\ LET t == task[job_id]
         job == [jobs[job_id] EXCEPT !.current_step = "Generating story (for images)", !.progress = 7]
     IN /\ Log(job_id, <<"story", first_language(t)>>)
        /\ \/ \* asyncio.TimeoutError from wait_for
              /\ WriteJob(job_id, [job EXCEPT !.status = "error",
                                              !.error_message = "Story generation timed out"])
              /\ task' = [task EXCEPT ![job_id] =
                            [t EXCEPT !.story_result = "timeout", !.pc = "except",
                                      !.exc = [type |-> "RuntimeError",
                                               message |-> "Story generation timed out"]]]
           \/ \E response \in StoryResponses :
                LET result == generate_storybook(response, t.num_pages)
                IN IF result.ok
                   THEN /\ WriteJob(job_id, job)
                        /\ task' = [task EXCEPT ![job_id] =
                                      [t EXCEPT !.story_response = response, !.story_result = "ok",
                                                !.base_storybook = result.storybook,
                                                !.pc = "story_done"]]
                   ELSE /\ WriteJob(job_id, [job EXCEPT !.status = "error",
                                                        !.error_message = "Story generation failed"])
                        /\ task' = [task EXCEPT ![job_id] =
                                      [t EXCEPT !.story_response = response,
                                                !.story_result = "failed", !.pc = "except",
                                                !.exc = [type |-> result.type,
                                                         message |-> result.message]]]
  /\ UNCHANGED <<invocation, applied>>

\* lines 154-156
BaseStoryGenerated(job_id) ==
  /\ At(job_id, "story_done")
  /\ WriteJob(job_id, [jobs[job_id] EXCEPT !.progress = 10, !.current_step = "Base story generated"])
  /\ task' = [task EXCEPT ![job_id] = [@ EXCEPT !.story_response = NoResponse, !.pc = "cover"]]
  /\ UNCHANGED calls
  /\ UNCHANGED <<invocation, applied>>

\* what image_service.generate_image and the processing of its bytes can
\* give: a usable image, empty data, an exception of the service (every
\* provider failed), or bytes the image library cannot process
ImageOutcomes == {"image", "empty", "raise", "unprocessable"}

cover_path(job_id) == "assets/" \o job_id \o "/cover.png"

\* GenerateCover without the try/except around the cover
GenerateCover_uncaught(job_id) ==
  /\ At(job_id, "cover")
  /\ WriteJob(job_id, [jobs[job_id] EXCEPT !.current_step = "Generating cover image", !.progress = 11])
  /\ Log(job_id, <<"cover", "cover">>)
  /\ \E outcome \in ImageOutcomes :
       task' = [task EXCEPT ![job_id] =
                  IF outcome = "image"
                  THEN [@ EXCEPT !.cover_image_path = cover_path(job_id), !.pc = "extract"]
                  ELSE [@ EXCEPT !.pc = "except",
                                 !.exc = [type |-> "ValueError",
                                          message |-> "Image service returned empty image data"]]]
  /\ UNCHANGED <<invocation, applied>>

\* lines 158-210: the cover; every failure is caught and leaves no cover
GenerateCover(job_id) ==
  /\ At(job_id, "cover")
  /\ WriteJob(job_id, [jobs[job_id] EXCEPT !.current_step = "Generating cover image", !.progress = 11])
  /\ Log(job_id, <<"cover", "cover">>)
  /\ \E outcome \in ImageOutcomes :
       task' = [task EXCEPT ![job_id] =
                  [@ EXCEPT !.cover_image_path = IF outcome = "image" THEN cover_path(job_id) ELSE NULL,
                            !.pc = "extract"]]
  /\ UNCHANGED <<invocation, applied>>

lower_names(characters) == {lower(characters[n].name) : n \in 1..Len(characters)}

\* merge_character matching the extracted character against the list
\* `characters` built so far (the stored and the admitted characters)
merge_character_against_roster(characters, stored_characters, extracted_char) ==
  IF match_characters_by_similarity(extracted_char, characters) # 0
  THEN characters
  ELSE IF lower(extracted_char.name) \notin lower_names(characters)
       THEN Append(characters, extracted_char)
       ELSE characters

\* lines 243-258: the body of the loop over the extracted characters
merge_character(characters, stored_characters, extracted_char) ==
  IF match_characters_by_similarity(extracted_char, stored_characters) # 0
  THEN characters
  ELSE IF lower(extracted_char.name) \notin lower_names(characters)
       THEN Append(characters, extracted_char)
       ELSE characters

\* lines 242-258: the loop over the first n extracted characters, begun
\* with the stored characters as the list `characters`
RECURSIVE merge_characters(_, _, _)
merge_characters(stored_characters, extracted_characters, n) ==
  IF n = 0 THEN stored_characters
  ELSE merge_character(merge_characters(stored_characters, extracted_characters, n - 1),
                       stored_characters, extracted_characters[n])

\* ExtractCharacters without the try/except around the extraction
ExtractCharacters_uncaught(job_id) ==
  /\ At(job_id, "extract")
  /\ WriteJob(job_id, [jobs[job_id] EXCEPT !.current_step = "Extracting main characters", !.progress = 12])
  /\ \E raised \in BOOLEAN, returned \in ExtractedLists :
       LET t == task[job_id]
       IN /\ Log(job_id, <<"extract", IF raised THEN "raised" ELSE "returned">>)
          /\ task' = [task EXCEPT ![job_id] =
                        IF raised
                        THEN [t EXCEPT !.pc = "except",
                                       !.exc = [type |-> "RuntimeError",
                                                message |-> "Error extracting characters"]]
                        ELSE [t EXCEPT !.extracted_characters = returned,
                                       !.characters = merge_characters(t.stored_characters, returned,
                                                                       Len(returned)),
                                       !.selected_character_names = lower_names(t.stored_characters),
                                       !.pc = "characters"]]
  /\ UNCHANGED <<invocation, applied>>

\* lines 213-258: character extraction (a failure leaves the list empty)
\* and the merge with the stored characters
ExtractCharacters(job_id) ==
  /\ At(job_id, "extract")
  /\ WriteJob(job_id, [jobs[job_id] EXCEPT !.current_step = "Extracting main characters", !.progress = 12])
  /\ \E raised \in BOOLEAN, returned \in ExtractedLists :
       LET t == task[job_id]
           extracted_characters == IF raised THEN <<>> ELSE returned
       IN /\ Log(job_id, <<"extract", IF raised THEN "raised" ELSE "returned">>)
          /\ task' = [task EXCEPT ![job_id] =
                        [t EXCEPT !.extracted_characters = extracted_characters,
                                  !.characters = merge_characters(t.stored_characters, extracted_characters,
                                                                  Len(extracted_characters)),
                                  !.selected_character_names = lower_names(t.stored_characters),
                                  !.pc = "characters"]]
  /\ UNCHANGED <<invocation, applied>>

\* lines 260-273 and 304-306: the roster becomes the story's characters
\* (ensure_characters_in_beats changes only the sticker_subjects of the
\* beats, which Beats does not carry)
UseCharacters(job_id) ==
  /\ At(job_id, "characters")
  /\ LET t == task[job_id]
     IN IF t.characters # <<>>
        THEN /\ WriteJob(job_id, [jobs[job_id] EXCEPT !.current_step = "Generating character reference images",
                                                      !.progress = 14])
             /\ task' = [task EXCEPT ![job_id] =
                           [t EXCEPT !.base_storybook = [@ EXCEPT !.characters = t.characters],
                                     !.k = 1, !.pc = "reference"]]
        ELSE /\ UNCHANGED jobs
             /\ task' = [task EXCEPT ![job_id] =
                           [t EXCEPT !.base_storybook = [@ EXCEPT !.characters = <<>>],
                                     !.i = 1, !.pc = "prompts"]]
  /\ UNCHANGED calls
  /\ UNCHANGED <<invocation, applied>>

\* the first 8 hex digits of hashlib.md5(name).hexdigest(), as the two
\* 16-bit halves <<high, low>> of the 32-bit number they denote
md5_prefix(name) ==
  CASE name = Name_Luna -> <<33156, 26845>>   \* 818468dd
    [] name = Name_luna -> <<47754, 18608>>   \* ba8a48b0
    [] name = Name_Zed -> <<924, 33360>>   \* 039c8250
    [] name = Name_ZED -> <<28901, 6627>>   \* 70e519e3
    [] name = Name_Robo -> <<12421, 33118>>   \* 3085815e
    [] name = Name_Bo -> <<45272, 37181>>   \* b0d8913d

\* character_service.py line 499: int(prefix, 16) % (2**31), the number
\* high * 2^16 + low without its top bit
character_seed(name) ==
  LET prefix == md5_prefix(name)
  IN (prefix[1] % (2^15)) * (2^16) + prefix[2]

RECURSIVE join(_)
join(chars) == IF chars = <<>> THEN "" ELSE chars[1] \o join(Tail(chars))

reference_path(job_id, name) == "assets/" \o job_id \o "/character_reference_" \o join(name) \o ".png"

\* GenerateReferenceImage without the skip of the selected characters
GenerateReferenceImage_no_skip(job_id) ==
  /\ At(job_id, "reference")
  /\ LET t == task[job_id]
         character == t.characters[t.k]
         next == IF t.k = Len(t.characters) THEN [t EXCEPT !.i = 1, !.pc = "prompts"]
                 ELSE [t EXCEPT !.k = t.k + 1]
     IN IF character.reference_image_path # NULL
        THEN /\ task' = [task EXCEPT ![job_id] = next]
             /\ UNCHANGED calls
        ELSE /\ Log(job_id, <<"reference", join(character.name)>>)
             /\ \E outcome \in ImageOutcomes :
                  LET updated == IF outcome = "image"
                                 THEN [character EXCEPT
                                         !.reference_image_path = reference_path(job_id, character.name),
                                         !.seed = IF character.seed = NoSeed
                                                  THEN character_seed(character.name) ELSE @]
                                 ELSE character
                      characters == [t.characters EXCEPT ![t.k] = updated]
                  IN task' = [task EXCEPT ![job_id] =
                                [next EXCEPT !.characters = characters,
                                             !.base_storybook = [@ EXCEPT !.characters = characters]]]
  /\ UNCHANGED jobs
  /\ UNCHANGED <<invocation, applied>>

\* GenerateReferenceImage giving the seed to a character whose image failed
GenerateReferenceImage_seed_on_failure(job_id) ==
  /\ At(job_id, "reference")
  /\ LET t == task[job_id]
         character == t.characters[t.k]
         next == IF t.k = Len(t.characters) THEN [t EXCEPT !.i = 1, !.pc = "prompts"]
                 ELSE [t EXCEPT !.k = t.k + 1]
     IN IF \/ lower(character.name) \in t.selected_character_names
           \/ character.reference_image_path # NULL
        THEN /\ task' = [task EXCEPT ![job_id] = next]
             /\ UNCHANGED calls
        ELSE /\ Log(job_id, <<"reference", join(character.name)>>)
             /\ \E outcome \in ImageOutcomes :
                  LET updated == IF outcome = "image"
                                 THEN [character EXCEPT
                                         !.reference_image_path = reference_path(job_id, character.name),
                                         !.seed = IF character.seed = NoSeed
                                                  THEN character_seed(character.name) ELSE @]
                                 ELSE [character EXCEPT
                                         !.seed = IF character.seed = NoSeed
                                                  THEN character_seed(character.name) ELSE @]
                      characters == [t.characters EXCEPT ![t.k] = updated]
                  IN task' = [task EXCEPT ![job_id] =
                                [next EXCEPT !.characters = characters,
                                             !.base_storybook = [@ EXCEPT !.characters = characters]]]
  /\ UNCHANGED jobs
  /\ UNCHANGED <<invocation, applied>>

\* lines 275-303: one iteration of the loop over the roster.  The list
\* `characters` and base_storybook.characters are the same list object.
GenerateReferenceImage(job_id) ==
  /\ At(job_id, "reference")
  /\ LET t == task[job_id]
         character == t.characters[t.k]
         next == IF t.k = Len(t.characters) THEN [t EXCEPT !.i = 1, !.pc = "prompts"]
                 ELSE [t EXCEPT !.k = t.k + 1]
     IN IF \/ lower(character.name) \in t.selected_character_names
           \/ character.reference_image_path # NULL
        THEN /\ task' = [task EXCEPT ![job_id] = next]
             /\ UNCHANGED calls
        ELSE /\ Log(job_id, <<"reference", join(character.name)>>)
             /\ \E outcome \in ImageOutcomes :
                  LET updated == IF outcome = "image"
                                 THEN [character EXCEPT
                                         !.reference_image_path = reference_path(job_id, character.name),
                                         !.seed = IF character.seed = NoSeed
                                                  THEN character_seed(character.name) ELSE @]
                                 ELSE character
                      characters == [t.characters EXCEPT ![t.k] = updated]
                  IN task' = [task EXCEPT ![job_id] =
                                [next EXCEPT !.characters = characters,
                                             !.base_storybook = [@ EXCEPT !.characters = characters]]]
  /\ UNCHANGED jobs
  /\ UNCHANGED <<invocation, applied>>

total_beats(t) == Len(t.base_storybook.beats)

\* loop_progress with the division applied to the whole sum
loop_progress_misplaced(base, span, done, total) == (base + span * done) \div total

\* int(base + span * (i - 1) / total), the progress before item i of a loop
loop_progress(base, span, done, total) == (base * total + span * done) \div total

\* GeneratePrompts going on with the next beat when the prompts of a beat fail
GeneratePrompts_skipping_beat(job_id) ==
  /\ At(job_id, "prompts")
  /\ LET t == task[job_id]
     IN IF t.i > total_beats(t)
        THEN /\ WriteJob(job_id, [jobs[job_id] EXCEPT !.progress = 30,
                                                      !.current_step = "Image prompts generated"])
             /\ task' = [task EXCEPT ![job_id] = [t EXCEPT !.i = 1, !.pc = "images"]]
             /\ UNCHANGED calls
        ELSE /\ WriteJob(job_id, [jobs[job_id] EXCEPT
                                    !.current_step = "Generating image prompts for beat " \o ToString(t.i),
                                    !.progress = loop_progress(14, 16, t.i - 1, total_beats(t))])
             /\ Log(job_id, <<"prompts", ToString(t.i)>>)
             /\ \E raised \in {"none", "ValueError", "RuntimeError"} :
                  task' = [task EXCEPT ![job_id] =
                             IF raised = "none"
                             THEN [t EXCEPT !.all_background_prompts = @ \cup {t.i}, !.i = t.i + 1]
                             ELSE [t EXCEPT !.i = t.i + 1,
                                            !.exc = [type |-> raised,
                                                     message |-> "Error generating image prompts"]]]
  /\ UNCHANGED <<invocation, applied>>

\* lines 318-333: the prompts of beat i; an exception leaves the loop and the task
GeneratePrompts(job_id) ==
  /\ At(job_id, "prompts")
  /\ LET t == task[job_id]
     IN IF t.i > total_beats(t)
        THEN /\ WriteJob(job_id, [jobs[job_id] EXCEPT !.progress = 30,
                                                      !.current_step = "Image prompts generated"])
             /\ task' = [task EXCEPT ![job_id] = [t EXCEPT !.i = 1, !.pc = "images"]]
             /\ UNCHANGED calls
        ELSE /\ WriteJob(job_id, [jobs[job_id] EXCEPT
                                    !.current_step = "Generating image prompts for beat " \o ToString(t.i),
                                    !.progress = loop_progress(14, 16, t.i - 1, total_beats(t))])
             /\ Log(job_id, <<"prompts", ToString(t.i)>>)
             /\ \E raised \in {"none", "ValueError", "RuntimeError"} :
                  task' = [task EXCEPT ![job_id] =
                             IF raised = "none"
                             THEN [t EXCEPT !.all_background_prompts = @ \cup {t.i}, !.i = t.i + 1]
                             ELSE [t EXCEPT !.pc = "except",
                                            !.exc = [type |-> raised,
                                                     message |-> "Error generating image prompts"]]]
  /\ UNCHANGED <<invocation, applied>>

fullpage_path(job_id, i) == "assets/" \o job_id \o "/beat_" \o ToString(i) \o "_fullpage.png"

\* GenerateBeatImage whose except branch does not write the slot
GenerateBeatImage_no_slot(job_id) ==
  /\ At(job_id, "images")
  /\ LET t == task[job_id]
     IN IF t.i > total_beats(t)
        THEN /\ WriteJob(job_id, [jobs[job_id] EXCEPT !.progress = 60,
                                                      !.current_step = "Full-page images generated"])
             /\ task' = [task EXCEPT ![job_id] = [t EXCEPT !.lang_idx = 0, !.pc = "language"]]
             /\ UNCHANGED calls
        ELSE /\ WriteJob(job_id, [jobs[job_id] EXCEPT
                                    !.current_step = "Generating full-page image for beat " \o ToString(t.i),
                                    !.progress = loop_progress(30, 30, t.i - 1, total_beats(t))])
             /\ Log(job_id, <<"image", ToString(t.i)>>)
             /\ \E outcome \in ImageOutcomes :
                  task' = [task EXCEPT ![job_id] =
                             IF outcome = "image"
                             THEN [t EXCEPT !.image_paths = Put(@, t.i, fullpage_path(job_id, t.i)),
                                            !.i = t.i + 1]
                             ELSE [t EXCEPT !.i = t.i + 1]]
  /\ UNCHANGED <<invocation, applied>>

\* lines 339-438: the full-page image of beat i; a failure leaves slot i None
GenerateBeatImage(job_id) ==
  /\ At(job_id, "images")
  /\ LET t == task[job_id]
     IN IF t.i > total_beats(t)
        THEN /\ WriteJob(job_id, [jobs[job_id] EXCEPT !.progress = 60,
                                                      !.current_step = "Full-page images generated"])
             /\ task' = [task EXCEPT ![job_id] = [t EXCEPT !.lang_idx = 0, !.pc = "language"]]
             /\ UNCHANGED calls
        ELSE /\ WriteJob(job_id, [jobs[job_id] EXCEPT
                                    !.current_step = "Generating full-page image for beat " \o ToString(t.i),
                                    !.progress = loop_progress(30, 30, t.i - 1, total_beats(t))])
             /\ IF t.i \in t.all_background_prompts
                THEN /\ Log(job_id, <<"image", ToString(t.i)>>)
                     /\ \E outcome \in ImageOutcomes :
                          task' = [task EXCEPT ![job_id] =
                                     [t EXCEPT !.image_paths =
                                                 Put(@, t.i, IF outcome = "image"
                                                             THEN fullpage_path(job_id, t.i) ELSE NULL),
                                               !.i = t.i + 1]]
                ELSE /\ task' = [task EXCEPT ![job_id] =
                                   [t EXCEPT !.image_paths = Put(@, t.i, NULL), !.i = t.i + 1]]
                     /\ UNCHANGED calls
  /\ UNCHANGED <<invocation, applied>>

\* GenerateLanguageStory keeping the characters of the language's own story
GenerateLanguageStory_own_characters(job_id) ==
  /\ At(job_id, "language")
  /\ LET t == task[job_id]
     IN IF t.lang_idx >= Len(t.languages)
        THEN /\ task' = [task EXCEPT ![job_id] = [t EXCEPT !.pc = "complete"]]
             /\ UNCHANGED <<jobs, calls>>
        ELSE LET language == t.languages[t.lang_idx + 1]
             IN /\ WriteJob(job_id, [jobs[job_id] EXCEPT
                                       !.current_step = "Generating PDF in " \o language,
                                       !.progress = loop_progress(70, 25, t.lang_idx, Len(t.languages))])
                /\ Log(job_id, <<"story", language>>)
                /\ \E response \in StoryResponses :
                     LET result == generate_storybook(response, t.num_pages)
                     IN task' = [task EXCEPT ![job_id] =
                                   IF result.ok
                                   THEN [t EXCEPT !.story_response = response,
                                                  !.storybook = result.storybook,
                                                  !.pc = "pdf"]
                                   ELSE [t EXCEPT !.story_response = response, !.pc = "except",
                                                  !.exc = [type |-> result.type,
                                                           message |-> result.message]]]
  /\ UNCHANGED <<invocation, applied>>

\* lines 444-458: the story text of the next language, or the end of the loop
GenerateLanguageStory(job_id) ==
  /\ At(job_id, "language")
  /\ LET t == task[job_id]
     IN IF t.lang_idx >= Len(t.languages)
        THEN /\ task' = [task EXCEPT ![job_id] = [t EXCEPT !.pc = "complete"]]
             /\ UNCHANGED <<jobs, calls>>
        ELSE LET language == t.languages[t.lang_idx + 1]
             IN /\ WriteJob(job_id, [jobs[job_id] EXCEPT
                                       !.current_step = "Generating PDF in " \o language,
                                       !.progress = loop_progress(70, 25, t.lang_idx, Len(t.languages))])
                /\ Log(job_id, <<"story", language>>)
                /\ \E response \in StoryResponses :
                     LET result == generate_storybook(response, t.num_pages)
                     IN task' = [task EXCEPT ![job_id] =
                                   IF result.ok
                                   THEN [t EXCEPT !.story_response = response,
                                                  !.storybook = [result.storybook EXCEPT
                                                                   !.characters = t.base_storybook.characters],
                                                  !.pc = "pdf"]
                                   ELSE [t EXCEPT !.story_response = response, !.pc = "except",
                                                  !.exc = [type |-> result.type,
                                                           message |-> result.message]]]
  /\ UNCHANGED <<invocation, applied>>

\* where the document of a job and language is saved.  generate_pdf calls
\* save_pdf(job_id, pdf_bytes, language) and main.py calls
\* get_pdf_path(job_id, language); services/pdf_storage.py as it stands
\* defines both without the language parameter, so the document handle
\* follows the callers: one file per job and language.
save_pdf(job_id, language) == "output/" \o job_id \o "_" \o language \o ".pdf"

\* services/pdf_generator.py generate_pdf: the beat numbers must be exactly
\* the keys of image_paths; rendering and saving can raise like any file I/O
PdfOutcomes(storybook, image_paths) ==
  IF 1..Len(storybook.beats) # DOMAIN image_paths THEN {"ValueError"}
  ELSE {"saved", "Exception", "TimeoutError"}

\* AssemblePdf with the completion block of lines 500-506 inside the loop
AssemblePdf_completing(job_id) ==
  /\ At(job_id, "pdf")
  /\ LET t == task[job_id]
         language == t.languages[t.lang_idx + 1]
     IN /\ Log(job_id, <<"pdf", language>>)
        /\ \E outcome \in PdfOutcomes(t.storybook, t.image_paths) :
             IF outcome = "saved"
             THEN LET file_paths == Put(t.file_paths, language, save_pdf(job_id, language))
                  IN /\ task' = [task EXCEPT ![job_id] =
                                   [t EXCEPT !.file_paths = file_paths,
                                             !.story_response = NoResponse,
                                             !.lang_idx = t.lang_idx + 1, !.pc = "language"]]
                     /\ WriteJob(job_id, [jobs[job_id] EXCEPT
                                            !.status = "completed",
                                            !.file_paths = {file_paths},
                                            !.file_path = file_paths[t.languages[1]],
                                            !.progress = 100,
                                            !.current_step = "Completed"])
             ELSE /\ WriteJob(job_id, [jobs[job_id] EXCEPT !.current_step = "PDF generation failed for " \o language])
                  /\ task' = [task EXCEPT ![job_id] =
                                [t EXCEPT !.story_response = NoResponse, !.pc = "except",
                                          !.exc = [type |-> outcome,
                                                   message |-> "Error generating PDF"]]]
  /\ UNCHANGED <<invocation, applied>>

\* lines 460-498: document assembly for the language at lang_idx
AssemblePdf(job_id) ==
  /\ At(job_id, "pdf")
  /\ LET t == task[job_id]
         language == t.languages[t.lang_idx + 1]
     IN /\ Log(job_id, <<"pdf", language>>)
        /\ \E outcome \in PdfOutcomes(t.storybook, t.image_paths) :
             IF outcome = "saved"
             THEN /\ task' = [task EXCEPT ![job_id] =
                                [t EXCEPT !.file_paths = Put(@, language, save_pdf(job_id, language)),
                                          !.story_response = NoResponse,
                                          !.lang_idx = t.lang_idx + 1, !.pc = "language"]]
                  /\ UNCHANGED jobs
             ELSE /\ WriteJob(job_id, [jobs[job_id] EXCEPT !.current_step = "PDF generation failed for " \o language])
                  /\ task' = [task EXCEPT ![job_id] =
                                [t EXCEPT !.story_response = NoResponse, !.pc = "except",
                                          !.exc = [type |-> outcome,
                                                   message |-> "Error generating PDF"]]]
  /\ UNCHANGED <<invocation, applied>>

\* Complete taking file_path from the default language "en"
Complete_default_language(job_id) ==
  /\ At(job_id, "complete")
  /\ LET t == task[job_id]
     IN /\ WriteJob(job_id, [jobs[job_id] EXCEPT
                               !.status = "completed",
                               !.file_paths = {t.file_paths},
                               !.file_path = IF t.file_paths # <<>> /\ "en" \in DOMAIN t.file_paths
                                             THEN t.file_paths["en"] ELSE NULL,
                               !.progress = 100,
                               !.current_step = "Completed"])
        /\ task' = [task EXCEPT ![job_id] = [t EXCEPT !.pc = "finally"]]
  /\ UNCHANGED calls
  /\ UNCHANGED <<invocation, applied>>

\* lines 500-506: the only place where a job becomes "completed"
Complete(job_id) ==
  /\ At(job_id, "complete")
  /\ LET t == task[job_id]
     IN /\ WriteJob(job_id, [jobs[job_id] EXCEPT
                               !.status = "completed",
                               !.file_paths = {t.file_paths},
                               !.file_path = IF t.file_paths # <<>> /\ t.languages[1] \in DOMAIN t.file_paths
                                             THEN t.file_paths[t.languages[1]] ELSE NULL,
                               !.progress = 100,
                               !.current_step = "Completed"])
        /\ task' = [task EXCEPT ![job_id] = [t EXCEPT !.pc = "finally"]]
  /\ UNCHANGED calls
  /\ UNCHANGED <<invocation, applied>>

\* HandleException whose timeout handler does not write the status
HandleException_timeout_unset(job_id) ==
  /\ At(job_id, "except")
  /\ LET t == task[job_id]
     IN /\ IF t.exc.type = "TimeoutError"
           THEN WriteJob(job_id, [jobs[job_id] EXCEPT !.error_message = "Operation timed out",
                                                      !.current_step = "Failed: Timeout"])
           ELSE WriteJob(job_id, [jobs[job_id] EXCEPT !.status = "failed",
                                                      !.error_message = "Error processing job: " \o t.exc.message,
                                                      !.current_step = "Failed: " \o t.exc.type])
        /\ task' = [task EXCEPT ![job_id] = [t EXCEPT !.pc = "finally"]]
  /\ UNCHANGED calls
  /\ UNCHANGED <<invocation, applied>>

\* HandleException attaching the documents assembled before the failure
HandleException_partial_outputs(job_id) ==
  /\ At(job_id, "except")
  /\ LET t == task[job_id]
         job == IF t.file_paths # <<>>
                THEN [jobs[job_id] EXCEPT !.file_paths = {t.file_paths}]
                ELSE jobs[job_id]
     IN /\ IF t.exc.type = "TimeoutError"
           THEN WriteJob(job_id, [job EXCEPT !.status = "failed",
                                             !.error_message = "Operation timed out",
                                             !.current_step = "Failed: Timeout"])
           ELSE WriteJob(job_id, [job EXCEPT !.status = "failed",
                                             !.error_message = "Error processing job: " \o t.exc.message,
                                             !.current_step = "Failed: " \o t.exc.type])
        /\ task' = [task EXCEPT ![job_id] = [t EXCEPT !.pc = "finally"]]
  /\ UNCHANGED calls
  /\ UNCHANGED <<invocation, applied>>

\* lines 508-531: the two handlers around the whole task
HandleException(job_id) ==
  /\ At(job_id, "except")
  /\ LET t == task[job_id]
     IN /\ IF t.exc.type = "TimeoutError"
           THEN WriteJob(job_id, [jobs[job_id] EXCEPT !.status = "failed",
                                                      !.error_message = "Operation timed out",
                                                      !.current_step = "Failed: Timeout"])
           ELSE WriteJob(job_id, [jobs[job_id] EXCEPT !.status = "failed",
                                                      !.error_message = "Error processing job: " \o t.exc.message,
                                                      !.current_step = "Failed: " \o t.exc.type])
        /\ task' = [task EXCEPT ![job_id] = [t EXCEPT !.pc = "finally"]]
  /\ UNCHANGED calls
  /\ UNCHANGED <<invocation, applied>>

\* lines 532-538: close the LLM client, whatever happened
Cleanup(job_id) ==
  /\ At(job_id, "finally")
  /\ task' = [task EXCEPT ![job_id] = [@ EXCEPT !.llm_client = FALSE, !.pc = "done"]]
  /\ UNCHANGED <<jobs, calls>>
  /\ UNCHANGED <<invocation, applied>>

Next ==
  \/ Generate
  \/ \E job_id \in JobIds :
       \/ Start(job_id)
       \/ LoadCharacters(job_id)
       \/ GenerateBaseStory(job_id)
       \/ BaseStoryGenerated(job_id)
       \/ GenerateCover(job_id)
       \/ ExtractCharacters(job_id)
       \/ UseCharacters(job_id)
       \/ GenerateReferenceImage(job_id)
       \/ GeneratePrompts(job_id)
       \/ GenerateBeatImage(job_id)
       \/ GenerateLanguageStory(job_id)
       \/ AssemblePdf(job_id)
       \/ Complete(job_id)
       \/ HandleException(job_id)
       \/ Cleanup(job_id)

Spec == Init /\ [][Next]_vars

\* a step of the task of job_id
TaskStep(job_id) ==
  \/ Start(job_id)
  \/ LoadCharacters(job_id)
  \/ GenerateBaseStory(job_id)
  \/ BaseStoryGenerated(job_id)
  \/ GenerateCover(job_id)
  \/ ExtractCharacters(job_id)
  \/ UseCharacters(job_id)
  \/ GenerateReferenceImage(job_id)
  \/ GeneratePrompts(job_id)
  \/ GenerateBeatImage(job_id)
  \/ GenerateLanguageStory(job_id)
  \/ AssemblePdf(job_id)
  \/ Complete(job_id)
  \/ HandleException(job_id)
  \/ Cleanup(job_id)

\* The event loop runs a scheduled task to its end, and every call a step
\* awaits returns or raises: a step that can be taken is eventually taken.
FairSpec == Spec /\ \A job_id \in JobIds : WF_vars(TaskStep(job_id))

(***************************************************************************)
(* Two jobs at once.  background_tasks.add_task schedules one task per     *)
(* request on the same event loop, and every await of a task lets the      *)
(* other run: the steps of the two tasks interleave in any order.  Both    *)
(* requests are POST /generate?num_pages=1.                                *)
(***************************************************************************)
ConcurrentJobIds == {"j1", "j2"}

\* the steps of document assembly (lines 440-506)
DuringAssembly == {"language", "pdf", "complete"}

GenerateConcurrently ==
  \E job_id \in ConcurrentJobIds : generate_storybook_endpoint(job_id, 1, NoLanguages, <<>>)

\* the first job is followed to its end, the second one up to its document
\* assembly (and through its handlers when it fails before)
JobsNext ==
  \/ GenerateConcurrently
  \/ TaskStep("j1")
  \/ /\ "j2" \in DOMAIN task
     /\ task["j2"].pc \notin DuringAssembly
     /\ TaskStep("j2")

JobsSpec == Init /\ [][JobsNext]_vars

(***************************************************************************)
(* Functions of the services applied to arguments of their own.  One       *)
(* action applies one function once and keeps its arguments and its        *)
(* result in `applied`.                                                    *)
(***************************************************************************)
W_tree == <<"t", "r", "e", "e">>
W_waves == <<"w", "a", "v", "e", "s">>
W_naps == <<"n", "a", "p", "s">>
W_the == <<"t", "h", "e">>
W_sings == <<"s", "i", "n", "g", "s">>
W_rains == <<"r", "a", "i", "n", "s">>

\* StoryBeat (src/models.py): text is kept as its list of words
StoryBeat(text, sticker_subjects) == [text |-> text, sticker_subjects |-> sticker_subjects]

BeatTexts ==
  { <<Name_Luna, W_waves>>, <<Name_Robo, W_naps>>, <<W_the, Sp_bear, W_sings>>, <<W_rains>> }

BeatSubjects ==
  { <<>>, <<Name_Robo>>, <<W_tree>>, <<Name_Luna, W_tree>>, <<Sp_mouse>> }

BeatInputs == {StoryBeat(text, subjects) : text \in BeatTexts, subjects \in BeatSubjects}

\* the stored characters a request can have loaded (lines 97-116)
StoredInputs ==
  UNION { {loaded_characters(ids, loaded) : loaded \in [1..Len(ids) -> BOOLEAN]} :
            ids \in {c \in CharacterIdInputs : \A n \in 1..Len(c) : character_exists(c[n])} }

\* the rosters main.py passes on (lines 231-266): the stored characters and
\* the non-empty list `characters` merged from them
RosterInputs ==
  {r \in {[stored |-> stored,
           characters |-> merge_characters(stored, extracted, Len(extracted))] :
             stored \in StoredInputs, extracted \in ExtractedLists} :
     r.characters # <<>>}

lower_all(strings) == [n \in 1..Len(strings) |-> lower(strings[n])]

\* `s in beat_text_lower` for a string s without spaces
in_text(text, s) == \E n \in 1..Len(text) : contains(lower(text[n]), s)

\* re.search(r'\b' + s + r'\b', beat_text_lower) for a string s without spaces
word_in_text(text, s) == \E n \in 1..Len(text) : lower(text[n]) = s

\* lines 733-746
mentioned(character, text) ==
  LET char_name_lower == lower(character.name)
      char_species_lower_val == lower(character.species)
  IN IF in_text(text, char_name_lower) THEN word_in_text(text, char_name_lower)
     ELSE IF character.species # NoSpecies /\ in_text(text, char_species_lower_val)
          THEN word_in_text(text, char_species_lower_val)
          ELSE FALSE

\* lines 753-762
already_included(sticker_subjects, character) ==
  LET char_name_lower == lower(character.name)
      char_species_lower_val == lower(character.species)
  IN \E n \in 1..Len(sticker_subjects) :
       LET subject_lower == lower(sticker_subjects[n])
       IN \/ contains(subject_lower, char_name_lower)
          \/ contains(char_name_lower, subject_lower)
          \/ /\ character.species # NoSpecies
             /\ \/ contains(subject_lower, char_species_lower_val)
                \/ contains(char_species_lower_val, subject_lower)

\* lines 766-771
subject_to_add(character, existing_subjects_lower) ==
  IF /\ character.species # NoSpecies
     /\ \/ Len(character.species) < Len(character.name)
        \/ lower(character.species) \in Range(existing_subjects_lower)
  THEN character.species
  ELSE character.name

\* lines 729-773: the sticker_subjects of one beat after the loop over the
\* first n characters
RECURSIVE ensure_characters_in_beat(_, _, _, _, _)
ensure_characters_in_beat(beat, beat_idx, characters, selected_names_lower, n) ==
  IF n = 0 THEN beat.sticker_subjects
  ELSE LET sticker_subjects ==
             ensure_characters_in_beat(beat, beat_idx, characters, selected_names_lower, n - 1)
           character == characters[n]
           is_selected == lower(character.name) \in selected_names_lower
           should_include == mentioned(character, beat.text) \/ (is_selected /\ beat_idx = 0)
       IN IF should_include /\ ~already_included(sticker_subjects, character)
          THEN Append(sticker_subjects,
                      subject_to_add(character, lower_all(beat.sticker_subjects)))
          ELSE sticker_subjects

\* lines 698-773: the beats of the storybook after the call
ensure_characters_in_beats(beats, characters, selected_character_names) ==
  IF characters = <<>> THEN beats
  ELSE [n \in 1..Len(beats) |->
          [beats[n] EXCEPT !.sticker_subjects =
             ensure_characters_in_beat(beats[n], n - 1, characters,
                                       selected_character_names, Len(characters))]]

\* main.py line 266 on a story of 1..MaxPages beats
EnsureCharactersInBeats ==
  /\ applied = NotApplied
  /\ \E roster \in RosterInputs, beats \in SeqsUpTo(BeatInputs, MaxPages) \ {<<>>} :
       applied' = [function |-> "ensure_characters_in_beats",
                   input |-> [beats |-> beats, characters |-> roster.characters,
                              selected_character_names |-> lower_names(roster.stored)],
                   output |-> ensure_characters_in_beats(beats, roster.characters,
                                                         lower_names(roster.stored))]
  /\ UNCHANGED <<jobs, task, calls, invocation>>

\* characters extraction can describe: every name, species, feature list
\* and description of the lists below
ExtractedInputs ==
  {Extracted(name, species, features, words) :
     name \in {Name_luna, Name_Bo, Name_Robo, Name_Zed},
     species \in {NoSpecies, Sp_mouse, Sp_dormouse, Sp_bear},
     features \in {{}, {"red scarf"}, {"big ears", "blue hat"}},
     words \in {<<>>, <<"small", "grey", "mouse">>, <<"the", "large", "bear", "with", "hat">>}}

\* lists of stored characters: the store's characters in any order, and
\* the same character loaded twice
StoredLists ==
  {<<>>, <<CharacterStore["luna"]>>, <<CharacterStore["bo"]>>,
   <<CharacterStore["luna"], CharacterStore["bo"]>>,
   <<CharacterStore["bo"], CharacterStore["luna"]>>,
   <<CharacterStore["luna"], CharacterStore["luna"]>>}

\* main.py line 245
MatchCharactersBySimilarity ==
  /\ applied = NotApplied
  /\ \E extracted_char \in ExtractedInputs, stored_chars \in StoredLists :
       applied' = [function |-> "match_characters_by_similarity",
                   input |-> [extracted_char |-> extracted_char, stored_chars |-> stored_chars],
                   output |-> match_characters_by_similarity(extracted_char, stored_chars)]
  /\ UNCHANGED <<jobs, task, calls, invocation>>

(***************************************************************************)
(* services/art_director_agent.py: generate_image_prompts, from the parsed *)
(* answer of the model to the list of sticker prompts.  Subjects are       *)
(* compared as they are written (`subject not in generated_subjects`).     *)
(***************************************************************************)
ImagePrompt(prompt, subject) == [prompt |-> prompt, subject |-> subject]

\* get_style_keywords(None): the keywords of DEFAULT_STYLE
style_keywords == "3D rendered, photorealistic lighting, soft shadows, professional studio quality"

\* apply_style_to_prompt on a prompt that is not blank
apply_style_to_prompt(prompt) == prompt \o ", " \o style_keywords

\* lines 430-431
simple_prompt(subject) ==
  "sticker-style " \o subject \o ", cute and colorful, clean white background, "
     \o "professional lighting, children's book illustration style"

\* lines 405-425: one ImagePrompt for every item of prompt_data["prompts"]
generated_prompts(prompts) ==
  [n \in 1..Len(prompts) |->
     ImagePrompt(apply_style_to_prompt(prompts[n].prompt), prompts[n].subject)]

\* lines 429-437: the loop over the first n sticker subjects
RECURSIVE fallback_prompts(_, _, _)
fallback_prompts(sticker_subjects, generated_subjects, n) ==
  IF n = 0 THEN <<>>
  ELSE LET front == fallback_prompts(sticker_subjects, generated_subjects, n - 1)
           subject == sticker_subjects[n]
       IN IF subject \notin generated_subjects
          THEN Append(front, ImagePrompt(apply_style_to_prompt(simple_prompt(subject)), subject))
          ELSE front

\* lines 402-437: the sticker prompts returned
generate_image_prompts(sticker_subjects, prompts) ==
  LET image_prompts == generated_prompts(prompts)
  IN IF Len(image_prompts) < Len(sticker_subjects)
     THEN LET generated_subjects == {image_prompts[n].subject : n \in 1..Len(image_prompts)}
          IN image_prompts \o fallback_prompts(sticker_subjects, generated_subjects,
                                               Len(sticker_subjects))
     ELSE image_prompts

SubjectInputs == {"mouse", "tree"}

\* what the model can return for a subject: its prompt under the subject
\* as asked, or under the subject written another way
PromptInputs ==
  {[prompt |-> "SINGLE character only, " \o subject, subject |-> subject] :
     subject \in SubjectInputs \cup {"Mouse"}}

\* main.py lines 324-332 for one beat
GenerateImagePrompts ==
  /\ applied = NotApplied
  /\ \E sticker_subjects \in SeqsUpTo(SubjectInputs, MaxSubjects),
        prompts \in SeqsUpTo(PromptInputs, MaxSubjects) :
       applied' = [function |-> "generate_image_prompts",
                   input |-> [sticker_subjects |-> sticker_subjects, prompts |-> prompts],
                   output |-> generate_image_prompts(sticker_subjects, prompts)]
  /\ UNCHANGED <<jobs, task, calls, invocation>>

FunctionInit ==
  /\ jobs = <<>>
  /\ task = <<>>
  /\ calls = <<>>
  /\ invocation = NoInvocation
  /\ applied = NotApplied

FunctionNext ==
  \/ EnsureCharactersInBeats
  \/ MatchCharactersBySimilarity
  \/ GenerateImagePrompts

FunctionSpec == FunctionInit /\ [][FunctionNext]_vars

(***************************************************************************)
(* Properties                                                              *)
(***************************************************************************)
Terminal == {"completed", "failed"}
Failing == {"except", "finally", "done"}
CallsOf(job_id, kind) == SelectSeq(calls[job_id], LAMBDA call : call[1] = kind)

\* C1: the status of every job record is always one of pending, processing,
\* completed, failed.
C1_StatusInEnum ==
  \A job_id \in DOMAIN jobs :
    jobs[job_id].status \in {"pending", "processing", "completed", "failed"}

C3_EventuallyTerminal ==
  \A job_id \in JobIds :
    (job_id \in DOMAIN jobs /\ jobs[job_id].status = "processing")
      ~> (job_id \in DOMAIN jobs /\ jobs[job_id].status \in Terminal)

\* C3 witness: an exception of document assembly ended the job as failed
C3_Witness ==
  \E job_id \in DOMAIN jobs :
    /\ task[job_id].exc.type = "TimeoutError"
    /\ task[job_id].pc = "done"
    /\ jobs[job_id].status = "failed"

\* the values the three loops write stay between the write before the
\* loop and the write after it, and do not decrease, for every page count
\* the API accepts
ProgressLaw ==
  \A total \in 1..MaxApiPages : \A done \in 0..(total - 1) :
     /\ 14 <= loop_progress(14, 16, done, total)
     /\ loop_progress(14, 16, done, total) <= 30
     /\ 30 <= loop_progress(30, 30, done, total)
     /\ loop_progress(30, 30, done, total) <= 60
     /\ 60 <= loop_progress(70, 25, done, total)
     /\ loop_progress(70, 25, done, total) <= 100
     /\ done > 0 =>
          /\ loop_progress(14, 16, done - 1, total) <= loop_progress(14, 16, done, total)
          /\ loop_progress(30, 30, done - 1, total) <= loop_progress(30, 30, done, total)
          /\ loop_progress(70, 25, done - 1, total) <= loop_progress(70, 25, done, total)

C6_BeatCount ==
  \A job_id \in DOMAIN task :
    LET t == task[job_id]
        response == t.story_response
        story == IF t.pc = "pdf" THEN t.storybook ELSE t.base_storybook
    IN response.kind = "json" =>
         IF Len(response.beats) < t.num_pages
         THEN /\ t.pc \in Failing
              /\ t.exc.type = "RuntimeError"
              /\ t.story_result = "failed" => t.base_storybook = NoStory
              /\ t.story_result = "ok" => Cardinality(DOMAIN t.file_paths) = t.lang_idx
         ELSE /\ t.pc \in {"story_done", "pdf"}
              /\ Len(story.beats) = t.num_pages
              /\ \A n \in 1..t.num_pages : story.beats[n] = response.beats[n]
              /\ Len(response.beats) = t.num_pages => story.beats = response.beats

\* C6 witness: a response with more beats than requested was trimmed
C6_Witness ==
  \E job_id \in DOMAIN task :
    /\ task[job_id].pc = "story_done"
    /\ Len(task[job_id].story_response.beats) > task[job_id].num_pages
    /\ Len(task[job_id].base_storybook.beats) = task[job_id].num_pages

\* C7: when the story of the first language fails, the job ends failed and
\* no cover, extraction, prompt, image or document call is ever issued.
C7_StoryFailureStops ==
  \A job_id \in DOMAIN task :
    LET t == task[job_id]
    IN t.story_result \in {"failed", "timeout"} =>
         /\ calls[job_id] = << <<"story", t.languages[1]>> >>
         /\ t.pc \in Failing
         /\ t.pc \in {"finally", "done"} => jobs[job_id].status = "failed"

\* C7 witness: a story with too few beats ended the job
C7_Witness ==
  \E job_id \in DOMAIN task :
    /\ task[job_id].story_result = "failed"
    /\ task[job_id].story_response.kind = "json"
    /\ task[job_id].pc = "done"
    /\ jobs[job_id].status = "failed"

C9_ImageSlots ==
  [][\A job_id \in DOMAIN task :
       LET t == task[job_id]
           u == task'[job_id]
           N == Len(u.base_storybook.beats)
           written == IF u.pc = "images" THEN u.i - 1 ELSE N
       IN /\ \A n \in DOMAIN t.image_paths :
               n \in DOMAIN u.image_paths /\ u.image_paths[n] = t.image_paths[n]
          /\ t.pc = "images" => u.pc \in {"images", "language"} /\ jobs'[job_id].status = "processing"
          /\ u.pc \in {"images", "language", "pdf", "complete"} =>
               /\ DOMAIN u.image_paths = 1..written
               /\ CallsOf(job_id, "image")' = [n \in 1..written |-> <<"image", ToString(n)>>]
          /\ u.pc = "pdf" => PdfOutcomes(u.storybook, u.image_paths) # {"ValueError"}]_vars

\* C9 witness: the image of beat 1 failed and beat 2 was still generated
C9_Witness ==
  \E job_id \in DOMAIN task :
    /\ task[job_id].pc = "language"
    /\ DOMAIN task[job_id].image_paths = 1..2
    /\ task[job_id].image_paths[1] = NULL
    /\ task[job_id].image_paths[2] # NULL

\* the task of job_id failed inside the loop over the languages
LanguageFailed(job_id) ==
  /\ task[job_id].exc # NoException
  /\ task[job_id].pc \in Failing
  /\ CallsOf(job_id, "image") # <<>>
  /\ calls[job_id][Len(calls[job_id])][1] \in {"story", "pdf"}

failure_step(exc) ==
  IF exc.type = "TimeoutError" THEN "Failed: Timeout" ELSE "Failed: " \o exc.type

\* why a call of the author agent failed
story_cause(response) ==
  IF response.kind = "raise"
  THEN IF response.exc.type = "TimeoutError" THEN "Timeout" ELSE "Unavailable"
  ELSE IF response.kind = "json" THEN "ContractViolation" ELSE "Malformed"

\* C11: the record of a job that failed for its story tells the cause: a
\* job whose providers timed out is labelled as a timeout, and the label of
\* a failed job is not the label a failure of another cause gets.
C11_FailureClassified ==
  \A job_id \in DOMAIN jobs :
    LET t == task[job_id]
        job == jobs[job_id]
    IN job.status = "failed" /\ t.story_result = "failed" =>
         /\ story_cause(t.story_response) = "Timeout" => job.current_step = "Failed: Timeout"
         /\ \A other \in StoryResponses :
              LET result == generate_storybook(other, t.num_pages)
              IN ~result.ok /\ story_cause(other) # story_cause(t.story_response) =>
                   job.current_step # failure_step(Error(result.type, result.message))

LastAttempt == invocation.attempts[Len(invocation.attempts)]

\* C12: the providers are attempted one at a time in the order of
\* providers_to_try, a provider only after every provider before it has
\* failed; the first provider that returns ends the call, which returns
\* that provider's result, and nothing is attempted afterwards.
C12_SequentialAttempts ==
  [][LET c == invocation
         d == invocation'
     IN /\ Len(d.attempts) <= Len(d.providers_to_try)
        /\ Len(d.attempts) <= Len(c.attempts) + 1
        /\ \A n \in 1..Len(d.attempts) : d.attempts[n].provider = d.providers_to_try[n]
        /\ \A n \in 1..(Len(d.attempts) - 1) : d.attempts[n].answer # "ok"
        /\ d.status = "running" => d.position = Len(d.attempts) + 1
        /\ d.model_idx > 0 => d.status = "running" /\ d.providers_to_try[d.position] = "pollinations"
        /\ d.status = "returned" <=>
              d.attempts # <<>> /\ d.attempts[Len(d.attempts)].answer = "ok"
        /\ d.status = "returned" => d.result = d.attempts[Len(d.attempts)].provider
        /\ c.status = "returned" => d = c]_vars

C12_Witness ==
  /\ invocation.status = "returned"
  /\ Len(invocation.attempts) = 3
  /\ invocation.attempts[1].answer = "timeout"
  /\ invocation.result = invocation.providers_to_try[3]

\* the attempt on provider n failed, and provider n is not the last
FailedBeforeLast(n) ==
  /\ invocation.use_fallback
  /\ n <= Len(invocation.attempts)
  /\ n < Len(invocation.providers_to_try)
  /\ invocation.attempts[n].answer # "ok"

\* C13: with fallback enabled a failure of a provider that is not the
\* last, whatever its kind, never ends the call: the attempt on the next
\* provider is what the call goes on with, the call comes to its end, and
\* at its end the next provider has been attempted.
C13_FailureFallsThrough ==
  /\ [](\A n \in 1..Len(invocation.attempts) :
          FailedBeforeLast(n) =>
            \/ /\ Len(invocation.attempts) = n
               /\ invocation.status = "running"
               /\ invocation.position = n + 1
            \/ /\ Len(invocation.attempts) > n
               /\ invocation.attempts[n + 1].provider = invocation.providers_to_try[n + 1])
  /\ <>(invocation.status \in {"returned", "raised"})

C13_Witness ==
  /\ invocation.use_fallback
  /\ Len(invocation.attempts) >= 2
  /\ invocation.attempts[1].answer \in CredentialAnswers

\* C14: once Pollinations has answered 401 in a call, the call sends
\* Pollinations no other request.
C14_NoRequestAfter401 ==
  [][invocation.unauthorized => invocation'.request = invocation.request]_vars

\* C15: a call in which every provider failed raises the RuntimeError
\* "All providers failed" made of the failure, not the last provider's
\* own exception.
C15_AggregateError ==
  invocation.status = "raised" => invocation.exc = all_providers_failed(invocation.last_error)

\* C16: when the last provider fails for its credential, the call raises
\* that credential error itself.
C16_CredentialErrorVerbatim ==
  invocation.status = "raised" /\ LastAttempt.answer \in CredentialAnswers =>
    invocation.exc = LastAttempt.cause

\* the merge of lines 231-258 has been done for the job
Resolved(job_id) == CallsOf(job_id, "extract") # <<>>

\* the loop of lines 275-303 is over and the task has gone on
AfterCharacterPhase == {"prompts", "images", "language", "pdf", "complete"}

\* C17: the characters loaded from storage are the first members of the
\* roster, as they were loaded (seed and reference_image_path included), the
\* members after them are extracted characters, and no reference image is
\* generated for a loaded character.
C17_PinnedSurvive ==
  \A job_id \in DOMAIN task :
    LET t == task[job_id]
        pinned == t.stored_characters
    IN /\ \A n \in 1..Len(pinned) :
            \E id \in Range(t.character_ids) : pinned[n] = CharacterStore[id]
       /\ Resolved(job_id) =>
            /\ Len(t.characters) >= Len(pinned)
            /\ SubSeq(t.characters, 1, Len(pinned)) = pinned
            /\ \A n \in (Len(pinned) + 1)..Len(t.characters) :
                 \E m \in 1..Len(t.extracted_characters) :
                    t.extracted_characters[m].name = t.characters[n].name
            /\ \A n \in 1..Len(pinned) :
                 <<"reference", join(pinned[n].name)>> \notin Range(calls[job_id])
       /\ t.pc \in AfterCharacterPhase =>
            SubSeq(t.base_storybook.characters, 1, Len(pinned)) = pinned

C17_Witness ==
  \E job_id \in DOMAIN task :
    LET t == task[job_id]
    IN /\ t.pc = "prompts"
       /\ Len(t.stored_characters) = 2
       /\ t.stored_characters[2].seed = NoSeed
       /\ Len(t.characters) > 2
       /\ t.characters[3].reference_image_path # NULL

\* C18: after the merge no two members of the roster have the same name
\* in lower case.
C18_UniqueNames ==
  \A job_id \in DOMAIN task :
    Resolved(job_id) =>
      \A m, n \in 1..Len(task[job_id].characters) :
         m # n => lower(task[job_id].characters[m].name) # lower(task[job_id].characters[n].name)

\* the extracted characters at the positions of `admitted`, in their order
RECURSIVE admitted_upto(_, _, _)
admitted_upto(extracted_characters, admitted, n) ==
  IF n = 0 THEN <<>>
  ELSE LET front == admitted_upto(extracted_characters, admitted, n - 1)
       IN IF n \in admitted THEN Append(front, extracted_characters[n]) ELSE front

\* C19: the roster is the stored characters followed by the admitted
\* extracted characters in extraction order, where an extracted character
\* is admitted if and only if each of its similarity scores is below 40
\* and no stored or earlier admitted character has its lower-case name.
C19_Admission ==
  \A job_id \in DOMAIN task :
    LET t == task[job_id]
        stored == t.stored_characters
        extracted == t.extracted_characters
        below_40(n) == \A k \in 1..Len(stored) :
                          LET score == similarity_score(extracted[n], stored[k])
                          IN score.num < 40 * score.den
        rule(admitted) ==
          \A n \in 1..Len(extracted) :
             n \in admitted <=>
               /\ below_40(n)
               /\ lower(extracted[n].name) \notin lower_names(stored)
               /\ \A m \in admitted : m < n => lower(extracted[m].name) # lower(extracted[n].name)
    IN Resolved(job_id) /\ t.pc = "characters" =>
         \E admitted \in SUBSET (1..Len(extracted)) :
            /\ rule(admitted)
            /\ t.characters = stored \o admitted_upto(extracted, admitted, Len(extracted))

C19_Witness ==
  \E job_id \in DOMAIN task :
    LET t == task[job_id]
    IN /\ t.pc = "characters"
       /\ Len(t.stored_characters) = 1
       /\ Len(t.extracted_characters) = 2
       /\ Len(t.characters) = 2
       /\ t.characters[2] = t.extracted_characters[1]

names_character(subject, character) ==
  \/ lower(subject) = lower(character.name)
  \/ character.species # NoSpecies /\ lower(subject) = lower(character.species)

\* C21: after ensure_characters_in_beats on a story with at least one beat,
\* the first beat's sticker_subjects hold, for every pinned character of the
\* roster, an entry that is that character's name or its species.
C21_PinnedInFirstBeat ==
  applied.function = "ensure_characters_in_beats" =>
    \A n \in 1..Len(applied.input.characters) :
      LET character == applied.input.characters[n]
      IN lower(character.name) \in applied.input.selected_character_names =>
           \E k \in 1..Len(applied.output[1].sticker_subjects) :
             names_character(applied.output[1].sticker_subjects[k], character)

\* C22: POST /generate adds exactly one record, under an id that had none,
\* with status pending, progress 0 and no file path, and leaves every other
\* record unchanged; a step that changes a record is a step of the task of
\* that record's job, and it changes no other record and no other task.
C22_JobsIndependent ==
  [][/\ DOMAIN jobs \subseteq DOMAIN jobs'
     /\ DOMAIN jobs' # DOMAIN jobs =>
          \E job_id \in DOMAIN jobs' \ DOMAIN jobs :
            /\ DOMAIN jobs' = DOMAIN jobs \cup {job_id}
            /\ jobs'[job_id] = JobStatus("pending", NULL, NoDict, 0, NULL, NULL)
            /\ \A other \in DOMAIN jobs : jobs'[other] = jobs[other]
     /\ \A job_id \in DOMAIN jobs :
          jobs'[job_id] # jobs[job_id] =>
            /\ task'[job_id] # task[job_id]
            /\ \A other \in DOMAIN jobs \ {job_id} :
                 jobs'[other] = jobs[other] /\ task'[other] = task[other]]_vars

\* two jobs under way at once, at different steps
C22_Witness ==
  /\ DOMAIN jobs = ConcurrentJobIds
  /\ jobs["j1"].status = "processing" /\ jobs["j1"].progress = 12
  /\ jobs["j2"].status = "processing" /\ jobs["j2"].progress = 7

SupportedProviders(service) == IF service = "llm" THEN LLMProvider ELSE ImageProvider

\* C24: the providers attempted are, in order, those of a list that begins
\* with the configured provider; with use_fallback the list holds every
\* supported provider of the service exactly once, without it the list is
\* the configured provider alone and the error raised is the error of that
\* provider's own attempt.
C24_AttemptOrder ==
  invocation.status # "idle" =>
    LET c == invocation
        supported == SupportedProviders(c.service)
    IN /\ c.providers_to_try[1] = c.provider
       /\ \A n \in 1..Len(c.attempts) : c.attempts[n].provider = c.providers_to_try[n]
       /\ c.use_fallback =>
            /\ Range(c.providers_to_try) = supported
            /\ Len(c.providers_to_try) = Cardinality(supported)
            /\ \A fallback \in BOOLEAN :
                 providers_to_try(c.service, c.provider, fallback)[1] = c.provider
       /\ ~c.use_fallback =>
            /\ c.providers_to_try = <<c.provider>>
            /\ c.status = "raised" =>
                 /\ Len(c.attempts) = 1
                 /\ c.attempts[1].provider = c.provider
                 /\ c.exc = c.attempts[1].exc
                 /\ c.exc # all_providers_failed(c.last_error)

\* with use_fallback the four text providers were attempted and all failed
C24_Witness ==
  /\ invocation.service = "llm"
  /\ invocation.use_fallback
  /\ invocation.status = "raised"
  /\ Len(invocation.attempts) = Cardinality(LLMProvider)
  /\ invocation.attempts[1].provider = invocation.provider

\* the extracted characters of the roster: what follows the stored ones
admitted_characters(t) ==
  SubSeq(t.characters, Len(t.stored_characters) + 1, Len(t.characters))

at_least_40(extracted_char, other) ==
  LET score == similarity_score(extracted_char, other)
  IN score.num >= 40 * score.den

C26_Rubric ==
  applied.function = "match_characters_by_similarity" =>
    LET e == applied.input.extracted_char
        stored == applied.input.stored_chars
        returned == applied.output
        keywords(c) == {w \in Range(c.physical_description) : Len(w) > 3} \ stop_words
        species_points(c) ==
          IF e.species = NoSpecies \/ c.species = NoSpecies THEN 0
          ELSE IF lower(e.species) = lower(c.species) THEN 40
          ELSE IF contains(lower(e.species), lower(c.species))
                    \/ contains(lower(c.species), lower(e.species)) THEN 30
          ELSE 0
        name_points(c) ==
          IF lower(e.name) = lower(c.name) THEN 30
          ELSE IF contains(lower(e.name), lower(c.name))
                    \/ contains(lower(c.name), lower(e.name)) THEN 15
          ELSE 0
        \* the Jaccard overlap of two sets as <<shared, all>>, 0 if one is empty
        jaccard(a, b) == IF a = {} \/ b = {} THEN <<0, 1>>
                         ELSE <<Cardinality(a \cap b), Cardinality(a \cup b)>>
        \* the rubric's score times fd * wd, with fd and wd the two denominators
        rubric(c) ==
          LET f == jaccard(e.key_features, c.key_features)
              w == jaccard(keywords(e), keywords(c))
          IN [num |-> (species_points(c) + name_points(c)) * f[2] * w[2]
                        + 20 * f[1] * w[2] + 10 * w[1] * f[2],
              den |-> f[2] * w[2]]
        same(a, b) == a.num * b.den = b.num * a.den
        less(a, b) == a.num * b.den < b.num * a.den
        forty == [num |-> 40, den |-> 1]
    IN /\ \A k \in 1..Len(stored) : same(similarity_score(e, stored[k]), rubric(stored[k]))
       /\ returned \in 0..Len(stored)
       /\ returned # 0 =>
            /\ ~less(rubric(stored[returned]), forty)
            /\ \A k \in 1..Len(stored) : ~less(rubric(stored[returned]), rubric(stored[k]))
            /\ \A k \in 1..(returned - 1) : less(rubric(stored[k]), rubric(stored[returned]))
       /\ returned = 0 => \A k \in 1..Len(stored) : less(rubric(stored[k]), forty)

\* the second of two stored characters is returned: it scores at least 40
\* and more than the first
C26_Witness ==
  /\ applied.function = "match_characters_by_similarity"
  /\ Len(applied.input.stored_chars) = 2
  /\ applied.output = 2

\* C27: in every request to Pollinations, a model is at its first, second
\* or third request; a 5xx answer or a network error before the third
\* request is followed by the next request to the same model, and with the
\* third request by the next model; a 404 or 400 answer is followed by the
\* next model at once.
C27_RetrySameModel ==
  [][invocation'.request # invocation.request =>
       LET c == invocation
           d == invocation'
           next_model == IF c.model_idx < Len(models)
                         THEN d.status = "running" /\ d.model_idx = c.model_idx + 1 /\ d.attempt = 1
                         ELSE d.model_idx = 0
       IN /\ d.request = <<models[c.model_idx], c.attempt>>
          /\ c.attempt \in 1..max_retries
          /\ d.response = "server or network error" =>
               IF c.attempt < max_retries
               THEN d.status = "running" /\ d.model_idx = c.model_idx /\ d.attempt = c.attempt + 1
               ELSE next_model
          /\ d.response \in {"400", "404"} => next_model]_vars

\* the third request to the first model was answered 503 and the second
\* model is the next
C27_Witness ==
  /\ invocation.request = <<models[1], max_retries>>
  /\ invocation.response = "server or network error"
  /\ invocation.model_error = model_failed(models[1], 503)
  /\ invocation.status = "running"
  /\ invocation.model_idx = 2
  /\ invocation.attempt = 1

\* C28: generate_image_prompts returns a sticker prompt for every subject
\* of the beat, and never fewer sticker prompts than the beat has subjects.
C28_PromptPerSubject ==
  applied.function = "generate_image_prompts" =>
    LET sticker_subjects == applied.input.sticker_subjects
        image_prompts == applied.output
    IN /\ \A n \in 1..Len(sticker_subjects) :
            \E k \in 1..Len(image_prompts) : image_prompts[k].subject = sticker_subjects[n]
       /\ Len(image_prompts) >= Len(sticker_subjects)

ExtractionRaised(job_id) == CallsOf(job_id, "extract") = << <<"extract", "raised">> >>

\* C29: when character extraction has raised, the roster is the stored
\* (pinned) characters and nothing else, the job is not failed by it, and
\* the steps of the character phase lead to prompt generation and to no
\* exception handler.
C29_ExtractionFailureTolerated ==
  [][\A job_id \in DOMAIN task' :
       LET u == task'[job_id]
       IN ExtractionRaised(job_id)' =>
            /\ u.extracted_characters = <<>>
            /\ u.characters = u.stored_characters
            /\ job_id \in DOMAIN task /\ task[job_id].pc \in {"extract", "characters", "reference"} =>
                 /\ u.pc \in {"characters", "reference", "prompts"}
                 /\ jobs'[job_id].status = "processing"]_vars

\* extraction raised for a job with a pinned character, and the prompts of
\* its first beat have been asked for
C29_Witness ==
  \E job_id \in DOMAIN task :
    /\ ExtractionRaised(job_id)
    /\ task[job_id].stored_characters # <<>>
    /\ task[job_id].characters = task[job_id].stored_characters
    /\ CallsOf(job_id, "prompts") # <<>>

PromptsRaised(job_id) ==
  job_id \in DOMAIN task /\ task[job_id].exc.message = "Error generating image prompts"

\* C30: when prompt generation has raised for a beat, that beat is the last
\* one prompts were asked for, the task is in its handlers or over, no beat
\* image and no document is ever asked for, and the job ends failed.
C30_PromptFailureFatal ==
  /\ [](\A job_id \in DOMAIN task :
          PromptsRaised(job_id) =>
            LET t == task[job_id]
            IN /\ t.pc \in Failing
               /\ Len(CallsOf(job_id, "prompts")) = t.i
               /\ CallsOf(job_id, "image") = <<>>
               /\ CallsOf(job_id, "pdf") = <<>>
               /\ Len(CallsOf(job_id, "story")) = 1
               /\ jobs[job_id].status # "completed"
               /\ t.pc \in {"finally", "done"} => jobs[job_id].status = "failed")
  /\ \A job_id \in JobIds :
       PromptsRaised(job_id) ~> (job_id \in DOMAIN jobs /\ jobs[job_id].status = "failed")

\* the prompts of the first of two beats raised and the job is failed
C30_Witness ==
  \E job_id \in DOMAIN task :
    /\ PromptsRaised(job_id)
    /\ task[job_id].i = 1
    /\ total_beats(task[job_id]) = 2
    /\ task[job_id].pc = "done"
    /\ jobs[job_id].status = "failed"

====
